---------------------------- MODULE Spec2Model ----------------------------
(***************************************************************************)
(* Integral Cayley-Dickson algebras (package integral).                    *)
(*                                                                         *)
(* An element is a record [l, r] of its two Cayley-Dickson halves, as in   *)
(* the Go structs; the leaves are big.Int values, modelled as unbounded    *)
(* integers.  Every method is translated from the type that defines it.    *)
(* The state is a small memory of objects of one type, on which a client   *)
(* calls one method at a time with a receiver and operands:                *)
(*   ty   the type of the objects                                          *)
(*   mem  the value of each object (operands w, x, y and the object z)     *)
(*   rcv  the object the client uses as receiver                           *)
(*   op   the last call, with its operands (<<"new">> before any call)     *)
(*   ret  the integer or boolean the last call returned                    *)
(*   err  the panic message of the last call ("" if it returned)           *)
(*   heap the big.Int values that the pointer-component types (Perplex,    *)
(*        and the pointer-component Complex and Infra) point to; their     *)
(*        objects in mem hold addresses into it, 0 being nil.  It is       *)
(*        empty in the runs on value-component types.                      *)
(* The specifications differ in the operands they start from and in the    *)
(* calls the client makes: Spec (Mul on two operands), SpecQuo (Quo, QuoL, *)
(* QuoR), SpecUnary (Quad, IsZeroDiv on one operand), SpecAssociator       *)
(* (Cayley.Associator on two operands), SpecTriple (chained Mul on three   *)
(* operands), SpecUnits (Mul and Associator on basis units),               *)
(* SpecCommutator (Commutator), SpecConj (Conj after Mul, Conj after Conj) *)
(* and SpecDistributive (Mul after Add or Sub).                            *)
(***************************************************************************)
EXTENDS Integers, Sequences, FiniteSets

VARIABLES ty, mem, rcv, op, ret, err, heap

vars == <<ty, mem, rcv, op, ret, err, heap>>

(***************************************************************************)
(* Bounds of the model.                                                    *)
(***************************************************************************)
\* The sum of the absolute values of all integer components of the two
\* operands x and y of a run of Spec is at most MaxWeight.
MaxWeight == 4

\* The same, for the two operands of a run of SpecQuo.
MaxWeightQuo == 3

\* The same, for the two operands of a run of SpecAssociator.
MaxWeightAssociator == 3

\* The same, for the three operands w, x, y of a run of SpecTriple.
MaxWeight3 == 3

\* The same, for the single operand x of a run of SpecUnary.
MaxWeight1 == 5

\* The largest joint weight of x and y in a run of SpecMulQuo.
MaxWeightMulQuo == 3

\* The largest weight of an element y tried as the other factor of a zero
\* product Mul(x, y).
MaxWeightFactor == 2

\* The largest joint weight of x and y in a run of SpecAlias.
MaxWeightAlias == 2

\* The largest absolute value of an integer the caller of a run of
\* SpecPointer passes to a constructor.
MaxInt == 1

\* The largest exponent n for which the power z^n is computed.
MaxPower == 4

\* The same, for the two operands of a run of SpecCommutator.
MaxWeightCommutator == 2

\* The same, for the two operands of a run of SpecConj.
MaxWeightConj == 3

\* The same, for the two operands w and x that a run of SpecDistributive adds
\* or subtracts.
MaxWeightDistributive == 2

(***************************************************************************)
(* math/big.                                                               *)
(***************************************************************************)
Abs(a) == IF a < 0 THEN -a ELSE a

\* big.Int.Quo: the quotient rounded toward zero (b # 0; Go panics on b = 0).
\* big.Int.Div in place of big.Int.Quo: the quotient rounded down.
IntQuoFloor(a, b) == IF b > 0 THEN a \div b ELSE (-a) \div (-b)

IntQuo(a, b) ==
    IF (a >= 0) = (b > 0) THEN Abs(a) \div Abs(b) ELSE -(Abs(a) \div Abs(b))

(***************************************************************************)
(* Complex (value components).                                             *)
(***************************************************************************)
ComplexZero == [l |-> 0, r |-> 0]

NewComplex(a, b) == [l |-> a, r |-> b]

ComplexEquals(z, y) == ~(z.l # y.l \/ z.r # y.r)

ComplexNeg(y) == [l |-> -y.l, r |-> -y.r]

ComplexConj(y) == [l |-> y.l, r |-> -y.r]

ComplexAdd(x, y) == [l |-> x.l + y.l, r |-> x.r + y.r]

ComplexSub(x, y) == [l |-> x.l - y.l, r |-> x.r - y.r]

\* Complex.Mul with the sign of Perplex.Mul.
ComplexMulPlus(x, y) ==
    [l |-> (x.l * y.l) + (y.r * x.r), r |-> (y.r * x.l) + (x.r * y.l)]

ComplexMul(x, y) ==
    LET a == x.l
        b == x.r
        c == y.l
        d == y.r
    IN  [l |-> (a * c) - (d * b), r |-> (d * a) + (b * c)]

ComplexQuad(z) == (z.l * z.l) + (z.r * z.r)

(***************************************************************************)
(* Perplex.  InfraPerplex keeps its halves as Perplex values and calls     *)
(* these same methods on them.                                             *)
(***************************************************************************)
PerplexZero == [l |-> 0, r |-> 0]

NewPerplex(a, b) == [l |-> a, r |-> b]

PerplexNeg(y) == [l |-> -y.l, r |-> -y.r]

PerplexConj(y) == [l |-> y.l, r |-> -y.r]

PerplexAdd(x, y) == [l |-> x.l + y.l, r |-> x.r + y.r]

PerplexSub(x, y) == [l |-> x.l - y.l, r |-> x.r - y.r]

\* Perplex.Mul with the second term of its r subtracted.
PerplexMulSub(x, y) ==
    [l |-> (x.l * y.l) + (y.r * x.r), r |-> (y.r * x.l) - (x.r * y.l)]

PerplexMul(x, y) ==
    LET p == x
        q == y
    IN  [l |-> (p.l * q.l) + (q.r * p.r), r |-> (q.r * p.l) + (p.r * q.l)]

PerplexQuad(z) == (z.l * z.l) - (z.r * z.r)

\* Perplex.IsZeroDiv without its second test.
PerplexIsZeroDivFirstTest(z) == z.l = z.r

PerplexIsZeroDiv(z) ==
    IF z.l = z.r THEN TRUE
    ELSE IF z.l = -z.r THEN TRUE
    ELSE FALSE

(***************************************************************************)
(* Infra (value components).                                               *)
(***************************************************************************)
InfraZero == [l |-> 0, r |-> 0]

NewInfra(a, b) == [l |-> a, r |-> b]

InfraNeg(y) == [l |-> -y.l, r |-> -y.r]

InfraConj(y) == [l |-> y.l, r |-> -y.r]

InfraAdd(x, y) == [l |-> x.l + y.l, r |-> x.r + y.r]

InfraSub(x, y) == [l |-> x.l - y.l, r |-> x.r - y.r]

InfraMul(x, y) ==
    LET a == x.l
        b == x.r
        c == y.l
        d == y.r
    IN  [l |-> a * c, r |-> (d * a) + (b * c)]

\* Infra.Quad with the form of Perplex.Quad.
InfraQuadMinus(z) == (z.l * z.l) - (z.r * z.r)

InfraQuad(z) == z.l * z.l

InfraIsZeroDiv(z) == z.l = 0

(***************************************************************************)
(* Hamilton = Complex x Complex.                                           *)
(***************************************************************************)
HamiltonZero == [l |-> ComplexZero, r |-> ComplexZero]

NewHamilton(a, b, c, d) == [l |-> NewComplex(a, b), r |-> NewComplex(c, d)]

HamiltonEquals(z, y) == ~(~ComplexEquals(z.l, y.l) \/ ~ComplexEquals(z.r, y.r))

HamiltonNeg(y) == [l |-> ComplexNeg(y.l), r |-> ComplexNeg(y.r)]

\* Hamilton.Conj with Neg in place of Conj on the l half.
HamiltonConjNeg(y) == [l |-> ComplexNeg(y.l), r |-> ComplexNeg(y.r)]

HamiltonConj(y) == [l |-> ComplexConj(y.l), r |-> ComplexNeg(y.r)]

HamiltonAdd(x, y) == [l |-> ComplexAdd(x.l, y.l), r |-> ComplexAdd(x.r, y.r)]

HamiltonSub(x, y) == [l |-> ComplexSub(x.l, y.l), r |-> ComplexSub(x.r, y.r)]

\* Hamilton.Mul without the conjugation of d.
HamiltonMulNoConj(x, y) ==
    [l |-> ComplexSub(ComplexMul(x.l, y.l), ComplexMul(y.r, x.r)),
     r |-> ComplexAdd(ComplexMul(y.r, x.l), ComplexMul(x.r, ComplexConj(y.l)))]

HamiltonMul(x, y) ==
    LET a == x.l
        b == x.r
        c == y.l
        d == y.r
    IN  [l |-> ComplexSub(ComplexMul(a, c), ComplexMul(ComplexConj(d), b)),
         r |-> ComplexAdd(ComplexMul(d, a), ComplexMul(b, ComplexConj(c)))]

\* Hamilton.Quad with the sign of Cockle.Quad.
HamiltonQuadMinus(z) == ComplexQuad(z.l) - ComplexQuad(z.r)

HamiltonQuad(z) == ComplexQuad(z.l) + ComplexQuad(z.r)

(***************************************************************************)
(* Cockle = Complex x Complex.                                             *)
(***************************************************************************)
CockleZero == [l |-> ComplexZero, r |-> ComplexZero]

NewCockle(a, b, c, d) == [l |-> NewComplex(a, b), r |-> NewComplex(c, d)]

CockleConj(y) == [l |-> ComplexConj(y.l), r |-> ComplexNeg(y.r)]

\* Cockle.Add that adds the l half of y to both halves.
CockleAddOfL(x, y) == [l |-> ComplexAdd(x.l, y.l), r |-> ComplexAdd(x.r, y.l)]

CockleAdd(x, y) == [l |-> ComplexAdd(x.l, y.l), r |-> ComplexAdd(x.r, y.r)]

CockleSub(x, y) == [l |-> ComplexSub(x.l, y.l), r |-> ComplexSub(x.r, y.r)]

\* Cockle.Mul with the sign of Hamilton.Mul.
CockleMulMinus(x, y) ==
    [l |-> ComplexSub(ComplexMul(x.l, y.l), ComplexMul(ComplexConj(y.r), x.r)),
     r |-> ComplexAdd(ComplexMul(y.r, x.l), ComplexMul(x.r, ComplexConj(y.l)))]

CockleMul(x, y) ==
    LET a == x.l
        b == x.r
        c == y.l
        d == y.r
    IN  [l |-> ComplexAdd(ComplexMul(a, c), ComplexMul(ComplexConj(d), b)),
         r |-> ComplexAdd(ComplexMul(d, a), ComplexMul(b, ComplexConj(c)))]

\* Cockle.Quad with the sign of Hamilton.Quad.
CockleQuadPlus(z) == ComplexQuad(z.l) + ComplexQuad(z.r)

CockleQuad(z) == ComplexQuad(z.l) - ComplexQuad(z.r)

CockleIsZeroDiv(z) == ComplexQuad(z.l) = ComplexQuad(z.r)

\* The loop of z.IsNilpotent(n), entered with the counter i and the product p:
\*     for i := 0; i < n; i++ { p.Mul(p, z); if p.Equals(zero) { return true } }
\*     return false
\* The answer carries the number of calls of Mul made so far.
RECURSIVE CockleIsNilpotentLoop(_, _, _, _)
CockleIsNilpotentLoop(z, n, i, p) ==
    IF i < n
    THEN LET p1 == CockleMul(p, z)
         IN  IF p1 = CockleZero
             THEN [ret |-> TRUE, muls |-> i + 1]
             ELSE CockleIsNilpotentLoop(z, n, i + 1, p1)
    ELSE [ret |-> FALSE, muls |-> i]

CockleIsNilpotentNoZeroTest(z, n) ==
    CockleIsNilpotentLoop(z, n, 0, NewCockle(1, 0, 0, 0))

\* z.IsNilpotent(n): a zero z is answered before the loop.
CockleIsNilpotent(z, n) ==
    IF z = CockleZero
    THEN [ret |-> TRUE, muls |-> 0]
    ELSE CockleIsNilpotentLoop(z, n, 0, NewCockle(1, 0, 0, 0))

(***************************************************************************)
(* InfraComplex = Complex x Complex.                                       *)
(***************************************************************************)
InfraComplexZero == [l |-> ComplexZero, r |-> ComplexZero]

NewInfraComplex(a, b, c, d) == [l |-> NewComplex(a, b), r |-> NewComplex(c, d)]

InfraComplexConj(y) == [l |-> ComplexConj(y.l), r |-> ComplexNeg(y.r)]

InfraComplexAdd(x, y) ==
    [l |-> ComplexAdd(x.l, y.l), r |-> ComplexAdd(x.r, y.r)]

InfraComplexSub(x, y) ==
    [l |-> ComplexSub(x.l, y.l), r |-> ComplexSub(x.r, y.r)]

\* InfraComplex.Mul with the conjugation on b instead of c.
InfraComplexMulConjB(x, y) ==
    [l |-> ComplexMul(x.l, y.l),
     r |-> ComplexAdd(ComplexMul(y.r, x.l), ComplexMul(ComplexConj(x.r), y.l))]

InfraComplexMul(x, y) ==
    LET a == x.l
        b == x.r
        c == y.l
        d == y.r
    IN  [l |-> ComplexMul(a, c),
         r |-> ComplexAdd(ComplexMul(d, a), ComplexMul(b, ComplexConj(c)))]

InfraComplexQuad(z) == ComplexQuad(z.l)

\* InfraComplex.IsZeroDiv testing the other half.
InfraComplexIsZeroDivOfR(z) == ComplexEquals(z.r, ComplexZero)

InfraComplexIsZeroDiv(z) == ComplexEquals(z.l, ComplexZero)

(***************************************************************************)
(* InfraPerplex = Perplex x Perplex.                                       *)
(***************************************************************************)
InfraPerplexZero == [l |-> PerplexZero, r |-> PerplexZero]

NewInfraPerplex(a, b, c, d) == [l |-> NewPerplex(a, b), r |-> NewPerplex(c, d)]

InfraPerplexConj(y) == [l |-> PerplexConj(y.l), r |-> PerplexNeg(y.r)]

InfraPerplexAdd(x, y) ==
    [l |-> PerplexAdd(x.l, y.l), r |-> PerplexAdd(x.r, y.r)]

InfraPerplexSub(x, y) ==
    [l |-> PerplexSub(x.l, y.l), r |-> PerplexSub(x.r, y.r)]

\* InfraPerplex.Mul without the conjugation of c.
InfraPerplexMulNoConj(x, y) ==
    [l |-> PerplexMul(x.l, y.l),
     r |-> PerplexAdd(PerplexMul(y.r, x.l), PerplexMul(x.r, y.l))]

InfraPerplexMul(x, y) ==
    LET a == x.l
        b == x.r
        c == y.l
        d == y.r
    IN  [l |-> PerplexMul(a, c),
         r |-> PerplexAdd(PerplexMul(d, a), PerplexMul(b, PerplexConj(c)))]

InfraPerplexQuad(z) == PerplexQuad(z.l)

InfraPerplexIsZeroDiv(z) == PerplexIsZeroDiv(z.l)

(***************************************************************************)
(* Supra = Infra x Infra.                                                  *)
(***************************************************************************)
SupraZero == [l |-> InfraZero, r |-> InfraZero]

NewSupra(a, b, c, d) == [l |-> NewInfra(a, b), r |-> NewInfra(c, d)]

\* Supra.Conj with its r half computed from the l half of y.
SupraConjOfL(y) == [l |-> InfraConj(y.l), r |-> InfraNeg(y.l)]

SupraConj(y) == [l |-> InfraConj(y.l), r |-> InfraNeg(y.r)]

SupraAdd(x, y) == [l |-> InfraAdd(x.l, y.l), r |-> InfraAdd(x.r, y.r)]

SupraSub(x, y) == [l |-> InfraSub(x.l, y.l), r |-> InfraSub(x.r, y.r)]

\* Supra.Mul with the operands of its last product exchanged.
SupraMulExchanged(x, y) ==
    [l |-> InfraMul(x.l, y.l),
     r |-> InfraAdd(InfraMul(y.r, x.l), InfraMul(InfraConj(y.l), InfraConj(x.r)))]

SupraMul(x, y) ==
    LET a == x.l
        b == x.r
        c == y.l
        d == y.r
    IN  [l |-> InfraMul(a, c),
         r |-> InfraAdd(InfraMul(d, a), InfraMul(b, InfraConj(c)))]

SupraQuad(z) == InfraQuad(z.l)

SupraIsZeroDiv(z) == InfraIsZeroDiv(z.l)

(***************************************************************************)
(* Cayley = Hamilton x Hamilton.                                           *)
(***************************************************************************)
CayleyZero == [l |-> HamiltonZero, r |-> HamiltonZero]

NewCayley(a, b, c, d, e, f, g, h) ==
    [l |-> NewHamilton(a, b, c, d), r |-> NewHamilton(e, f, g, h)]

CayleyEquals(z, y) == ~(~HamiltonEquals(z.l, y.l) \/ ~HamiltonEquals(z.r, y.r))

CayleyConj(y) == [l |-> HamiltonConj(y.l), r |-> HamiltonNeg(y.r)]

CayleyAdd(x, y) == [l |-> HamiltonAdd(x.l, y.l), r |-> HamiltonAdd(x.r, y.r)]

CayleySub(x, y) == [l |-> HamiltonSub(x.l, y.l), r |-> HamiltonSub(x.r, y.r)]

\* Cayley.Mul with the operands of its third product exchanged.
CayleyMulExchanged(x, y) ==
    [l |-> HamiltonSub(HamiltonMul(x.l, y.l), HamiltonMul(HamiltonConj(y.r), x.r)),
     r |-> HamiltonAdd(HamiltonMul(x.l, y.r), HamiltonMul(x.r, HamiltonConj(y.l)))]

CayleyMul(x, y) ==
    LET a == x.l
        b == x.r
        c == y.l
        d == y.r
    IN  [l |-> HamiltonSub(HamiltonMul(a, c), HamiltonMul(HamiltonConj(d), b)),
         r |-> HamiltonAdd(HamiltonMul(d, a), HamiltonMul(b, HamiltonConj(c)))]

CayleyQuad(z) == HamiltonQuad(z.l) + HamiltonQuad(z.r)

(***************************************************************************)
(* The concrete types, and each method on the type that defines it.        *)
(***************************************************************************)
Types ==
    {"Complex", "Perplex", "Infra", "Hamilton", "Cockle", "InfraComplex",
     "InfraPerplex", "Supra", "Cayley"}

\* The types whose Quo checks IsZeroDiv; the others compare with zero.
ZeroDivTypes ==
    {"Perplex", "Infra", "Cockle", "InfraComplex", "InfraPerplex", "Supra"}

\* The number of integer components (the length of Cartesian).
Dim(t) ==
    CASE t \in {"Complex", "Perplex", "Infra"} -> 2
      [] t = "Cayley" -> 8
      [] OTHER -> 4

\* The constructor of type t applied to the integers v[1], v[2], ...
New(t, v) ==
    CASE t = "Complex" -> NewComplex(v[1], v[2])
      [] t = "Perplex" -> NewPerplex(v[1], v[2])
      [] t = "Infra" -> NewInfra(v[1], v[2])
      [] t = "Hamilton" -> NewHamilton(v[1], v[2], v[3], v[4])
      [] t = "Cockle" -> NewCockle(v[1], v[2], v[3], v[4])
      [] t = "InfraComplex" -> NewInfraComplex(v[1], v[2], v[3], v[4])
      [] t = "InfraPerplex" -> NewInfraPerplex(v[1], v[2], v[3], v[4])
      [] t = "Supra" -> NewSupra(v[1], v[2], v[3], v[4])
      [] t = "Cayley" ->
            NewCayley(v[1], v[2], v[3], v[4], v[5], v[6], v[7], v[8])

\* Cartesian: the integer components of z, in order.
Cartesian(t, z) ==
    CASE Dim(t) = 2 -> <<z.l, z.r>>
      [] Dim(t) = 4 -> <<z.l.l, z.l.r, z.r.l, z.r.r>>
      [] Dim(t) = 8 ->
            <<z.l.l.l, z.l.l.r, z.l.r.l, z.l.r.r,
              z.r.l.l, z.r.l.r, z.r.r.l, z.r.r.r>>

\* new(T): the zero value of the type.
Zero(t) ==
    CASE t = "Complex" -> ComplexZero
      [] t = "Perplex" -> PerplexZero
      [] t = "Infra" -> InfraZero
      [] t = "Hamilton" -> HamiltonZero
      [] t = "Cockle" -> CockleZero
      [] t = "InfraComplex" -> InfraComplexZero
      [] t = "InfraPerplex" -> InfraPerplexZero
      [] t = "Supra" -> SupraZero
      [] t = "Cayley" -> CayleyZero

Conj(t, y) ==
    CASE t = "Complex" -> ComplexConj(y)
      [] t = "Perplex" -> PerplexConj(y)
      [] t = "Infra" -> InfraConj(y)
      [] t = "Hamilton" -> HamiltonConj(y)
      [] t = "Cockle" -> CockleConj(y)
      [] t = "InfraComplex" -> InfraComplexConj(y)
      [] t = "InfraPerplex" -> InfraPerplexConj(y)
      [] t = "Supra" -> SupraConj(y)
      [] t = "Cayley" -> CayleyConj(y)

Mul(t, x, y) ==
    CASE t = "Complex" -> ComplexMul(x, y)
      [] t = "Perplex" -> PerplexMul(x, y)
      [] t = "Infra" -> InfraMul(x, y)
      [] t = "Hamilton" -> HamiltonMul(x, y)
      [] t = "Cockle" -> CockleMul(x, y)
      [] t = "InfraComplex" -> InfraComplexMul(x, y)
      [] t = "InfraPerplex" -> InfraPerplexMul(x, y)
      [] t = "Supra" -> SupraMul(x, y)
      [] t = "Cayley" -> CayleyMul(x, y)

Add(t, x, y) ==
    CASE t = "Complex" -> ComplexAdd(x, y)
      [] t = "Perplex" -> PerplexAdd(x, y)
      [] t = "Infra" -> InfraAdd(x, y)
      [] t = "Hamilton" -> HamiltonAdd(x, y)
      [] t = "Cockle" -> CockleAdd(x, y)
      [] t = "InfraComplex" -> InfraComplexAdd(x, y)
      [] t = "InfraPerplex" -> InfraPerplexAdd(x, y)
      [] t = "Supra" -> SupraAdd(x, y)
      [] t = "Cayley" -> CayleyAdd(x, y)

Sub(t, x, y) ==
    CASE t = "Complex" -> ComplexSub(x, y)
      [] t = "Perplex" -> PerplexSub(x, y)
      [] t = "Infra" -> InfraSub(x, y)
      [] t = "Hamilton" -> HamiltonSub(x, y)
      [] t = "Cockle" -> CockleSub(x, y)
      [] t = "InfraComplex" -> InfraComplexSub(x, y)
      [] t = "InfraPerplex" -> InfraPerplexSub(x, y)
      [] t = "Supra" -> SupraSub(x, y)
      [] t = "Cayley" -> CayleySub(x, y)

Quad(t, z) ==
    CASE t = "Complex" -> ComplexQuad(z)
      [] t = "Perplex" -> PerplexQuad(z)
      [] t = "Infra" -> InfraQuad(z)
      [] t = "Hamilton" -> HamiltonQuad(z)
      [] t = "Cockle" -> CockleQuad(z)
      [] t = "InfraComplex" -> InfraComplexQuad(z)
      [] t = "InfraPerplex" -> InfraPerplexQuad(z)
      [] t = "Supra" -> SupraQuad(z)
      [] t = "Cayley" -> CayleyQuad(z)

\* z.Equals(y): the halves are compared, down to the integer components.
Equals(t, z, y) ==
    \A i \in 1..Dim(t) : ~(Cartesian(t, z)[i] # Cartesian(t, y)[i])

\* Scal(y, a): z.l.Scal(&y.l, a); z.r.Scal(&y.r, a), down to z.l.Mul(&y.l, a)
\* on every integer component.
Scal(t, y, a) == New(t, [i \in 1..Dim(t) |-> Cartesian(t, y)[i] * a])

\* Neg(y): z.l.Neg(&y.l); z.r.Neg(&y.r), down to the integer components.
Neg(t, y) == New(t, [i \in 1..Dim(t) |-> -Cartesian(t, y)[i]])

IsZeroDiv(t, z) ==
    CASE t = "Perplex" -> PerplexIsZeroDiv(z)
      [] t = "Infra" -> InfraIsZeroDiv(z)
      [] t = "Cockle" -> CockleIsZeroDiv(z)
      [] t = "InfraComplex" -> InfraComplexIsZeroDiv(z)
      [] t = "InfraPerplex" -> InfraPerplexIsZeroDiv(z)
      [] t = "Supra" -> SupraIsZeroDiv(z)

(***************************************************************************)
(* Methods that write their receiver.  m is the memory, a function from    *)
(* object names to elements; z, w, x, y are object names, so that a        *)
(* receiver may be the same object as an operand.  A call returns the      *)
(* memory it leaves and the panic message ("" when it returns normally).   *)
(***************************************************************************)
Return(m) == [mem |-> m, err |-> ""]

Panic(m, msg) == [mem |-> m, err |-> msg]

\* z.Mul(x, y) without the copies: the r half of z is computed from x and y
\* after the l half of z was written.
DoMulNoCopy(t, m, z, x, y) ==
    LET m1 == [m EXCEPT ![z].l = Mul(t, m[x], m[y]).l]
    IN  [m1 EXCEPT ![z].r = Mul(t, m1[x], m1[y]).r]

\* z.Mul(x, y): the operands are copied before z is written.
DoMul(t, m, z, x, y) == [m EXCEPT ![z] = Mul(t, m[x], m[y])]

\* z.Conj(y), z.Add(x, y), z.Sub(x, y)
DoConj(t, m, z, y) == [m EXCEPT ![z] = Conj(t, m[y])]

DoAdd(t, m, z, x, y) == [m EXCEPT ![z] = Add(t, m[x], m[y])]

DoSub(t, m, z, x, y) == [m EXCEPT ![z] = Sub(t, m[x], m[y])]

\* Every integer component of z divided by quad with big.Int.Quo.
QuoComponents(t, z, quad) ==
    New(t, [i \in 1..Dim(t) |-> IntQuo(Cartesian(t, z)[i], quad)])

\* The body of Quo conjugating the denominator in place: y.Conj(y) and
\* z.Mul(x, y).
QuoBodyConjInPlace(t, m, z, x, y, left) ==
    LET quad == Quad(t, m[y])
        m1 == [m EXCEPT ![y] = Conj(t, m[y])]
        m2 == IF left THEN DoMul(t, m1, z, y, x) ELSE DoMul(t, m1, z, x, y)
    IN  IF quad = 0 THEN Panic(m2, "division by zero")
        ELSE Return([m2 EXCEPT ![z] = QuoComponents(t, m2[z], quad)])

\* The body of Quo after its check of the denominator:
\*     quad := y.Quad(); z.Conj(y); z.Mul(x, z); then the divisions.
\* QuoL multiplies the other way round: z.Mul(z, x).
QuoBody(t, m, z, x, y, left) ==
    LET quad == Quad(t, m[y])
        m1 == [m EXCEPT ![z] = Conj(t, m[y])]
        m2 == IF left THEN DoMul(t, m1, z, z, x) ELSE DoMul(t, m1, z, x, z)
    IN  IF quad = 0 THEN Panic(m2, "division by zero")
        ELSE Return([m2 EXCEPT ![z] = QuoComponents(t, m2[z], quad)])

ComplexQuo(m, z, x, y) ==
    IF ComplexEquals(m[y], ComplexZero) THEN Panic(m, "zero denominator")
    ELSE QuoBody("Complex", m, z, x, y, FALSE)

PerplexQuo(m, z, x, y) ==
    IF PerplexIsZeroDiv(m[y]) THEN Panic(m, "denominator is zero divisor")
    ELSE QuoBody("Perplex", m, z, x, y, FALSE)

InfraQuo(m, z, x, y) ==
    IF InfraIsZeroDiv(m[y]) THEN Panic(m, "denominator is zero divisor")
    ELSE QuoBody("Infra", m, z, x, y, FALSE)

\* Hamilton.Quo multiplying the other way round, as QuoL does.
HamiltonQuoLeft(m, z, x, y) ==
    IF HamiltonEquals(m[y], HamiltonZero) THEN Panic(m, "zero denominator")
    ELSE QuoBody("Hamilton", m, z, x, y, TRUE)

HamiltonQuo(m, z, x, y) ==
    IF HamiltonEquals(m[y], HamiltonZero) THEN Panic(m, "zero denominator")
    ELSE QuoBody("Hamilton", m, z, x, y, FALSE)

\* Cockle.Quo with its check after the computation.
CockleQuoLateCheck(m, z, x, y) ==
    LET r == QuoBody("Cockle", m, z, x, y, FALSE)
    IN  IF CockleIsZeroDiv(m[y]) THEN Panic(r.mem, "denominator is zero divisor")
        ELSE r

CockleQuo(m, z, x, y) ==
    IF CockleIsZeroDiv(m[y]) THEN Panic(m, "denominator is zero divisor")
    ELSE QuoBody("Cockle", m, z, x, y, FALSE)

InfraComplexQuo(m, z, x, y) ==
    IF InfraComplexIsZeroDiv(m[y]) THEN Panic(m, "denominator is zero divisor")
    ELSE QuoBody("InfraComplex", m, z, x, y, FALSE)

InfraPerplexQuo(m, z, x, y) ==
    IF InfraPerplexIsZeroDiv(m[y]) THEN Panic(m, "denominator is zero divisor")
    ELSE QuoBody("InfraPerplex", m, z, x, y, FALSE)

\* Supra.Quo with the check of Complex.Quo.
SupraQuoZeroCheck(m, z, x, y) ==
    IF HamiltonEquals(m[y], SupraZero) THEN Panic(m, "zero denominator")
    ELSE QuoBody("Supra", m, z, x, y, FALSE)

SupraQuo(m, z, x, y) ==
    IF SupraIsZeroDiv(m[y]) THEN Panic(m, "denominator is zero divisor")
    ELSE QuoBody("Supra", m, z, x, y, FALSE)

CayleyQuoL(m, z, x, y) ==
    IF CayleyEquals(m[y], CayleyZero) THEN Panic(m, "denominator is zero")
    ELSE QuoBody("Cayley", m, z, x, y, TRUE)

CayleyQuoR(m, z, x, y) ==
    IF CayleyEquals(m[y], CayleyZero) THEN Panic(m, "denominator is zero")
    ELSE QuoBody("Cayley", m, z, x, y, FALSE)

Quo(t, m, z, x, y) ==
    CASE t = "Complex" -> ComplexQuo(m, z, x, y)
      [] t = "Perplex" -> PerplexQuo(m, z, x, y)
      [] t = "Infra" -> InfraQuo(m, z, x, y)
      [] t = "Hamilton" -> HamiltonQuo(m, z, x, y)
      [] t = "Cockle" -> CockleQuo(m, z, x, y)
      [] t = "InfraComplex" -> InfraComplexQuo(m, z, x, y)
      [] t = "InfraPerplex" -> InfraPerplexQuo(m, z, x, y)
      [] t = "Supra" -> SupraQuo(m, z, x, y)

\* The division named n: Quo, or QuoL and QuoR of Cayley.
QuoNamed(n, t, m, z, x, y) ==
    CASE n = "QuoL" -> CayleyQuoL(m, z, x, y)
      [] n = "QuoR" -> CayleyQuoR(m, z, x, y)
      [] OTHER -> Quo(t, m, z, x, y)

\* z.Commutator(x, y):
\*     z.Sub(z.Mul(x, y), new(T).Mul(y, x))
\* z.Mul(x, y) is called first, and new(T).Mul(y, x) reads x and y after it.
\* Commutator with the operands of its second product in the order of the
\* first.
CommutatorBodySameOrder(t, m, z, x, y) ==
    LET m1 == DoMul(t, m, z, x, y)
        temp == Mul(t, m1[x], m1[y])
    IN  [m1 EXCEPT ![z] = Sub(t, m1[z], temp)]

CommutatorBody(t, m, z, x, y) ==
    LET m1 == DoMul(t, m, z, x, y)
        temp == Mul(t, m1[y], m1[x])
    IN  [m1 EXCEPT ![z] = Sub(t, m1[z], temp)]

HamiltonCommutator(m, z, x, y) == CommutatorBody("Hamilton", m, z, x, y)

CockleCommutator(m, z, x, y) == CommutatorBody("Cockle", m, z, x, y)

InfraComplexCommutator(m, z, x, y) == CommutatorBody("InfraComplex", m, z, x, y)

InfraPerplexCommutator(m, z, x, y) == CommutatorBody("InfraPerplex", m, z, x, y)

SupraCommutator(m, z, x, y) == CommutatorBody("Supra", m, z, x, y)

CayleyCommutator(m, z, x, y) == CommutatorBody("Cayley", m, z, x, y)

Commutator(t, m, z, x, y) ==
    CASE t = "Hamilton" -> HamiltonCommutator(m, z, x, y)
      [] t = "Cockle" -> CockleCommutator(m, z, x, y)
      [] t = "InfraComplex" -> InfraComplexCommutator(m, z, x, y)
      [] t = "InfraPerplex" -> InfraPerplexCommutator(m, z, x, y)
      [] t = "Supra" -> SupraCommutator(m, z, x, y)
      [] t = "Cayley" -> CayleyCommutator(m, z, x, y)

\* Cayley.Associator with both products bracketed the same way.
CayleyAssociatorSameBrackets(m, z, w, x, y) ==
    LET m1 == DoMul("Cayley", m, z, w, x)
        m2 == DoMul("Cayley", m1, z, z, y)
        temp1 == CayleyMul(m2[w], m2[x])
        temp2 == CayleyMul(temp1, m2[y])
    IN  [m2 EXCEPT ![z] = CayleySub(m2[z], temp2)]

\* z.Associator(w, x, y):
\*     temp := new(Cayley)
\*     z.Sub(z.Mul(z.Mul(w, x), y), temp.Mul(w, temp.Mul(x, y)))
CayleyAssociator(m, z, w, x, y) ==
    LET m1 == DoMul("Cayley", m, z, w, x)
        m2 == DoMul("Cayley", m1, z, z, y)
        temp1 == CayleyMul(m2[x], m2[y])
        temp2 == CayleyMul(m2[w], temp1)
    IN  [m2 EXCEPT ![z] = CayleySub(m2[z], temp2)]

(***************************************************************************)
(* The pointer-component types: Perplex, and the Complex and Infra whose   *)
(* struct is {l, r *big.Int}.  An object holds two addresses into the heap *)
(* h; m is the memory of objects.  A method returns the memory and the     *)
(* heap it leaves, and Quo the panic message as well.                      *)
(***************************************************************************)
\* The value of an object: the integers z.L() and z.R() point to.
Deref(h, e) == [l |-> h[e.l], r |-> h[e.r]]

\* NewPerplex(a, b), NewComplex(a, b), NewInfra(a, b), with a and b addresses:
\*     z := new(T); z.SetL(a); z.SetR(b)
PointerNew(a, b) == [l |-> a, r |-> b]

\* z.Copy(y): z.SetL(y.L()); z.SetR(y.R())
PointerCopy(m, h, z, y) ==
    [mem |-> [m EXCEPT ![z] = [l |-> m[y].l, r |-> m[y].r]], heap |-> h]

\* z.Conj(y): z.SetL(y.L()); z.SetR(new(big.Int).Neg(y.R()))
PointerConj(m, h, z, y) ==
    [mem |-> [m EXCEPT ![z] = [l |-> m[y].l, r |-> Len(h) + 1]],
     heap |-> Append(h, -h[m[y].r])]

\* z.Mul(x, y) of the pointer-component Complex: p and q are copies of x and
\* y (the same addresses), and z gets two new integers.
PointerComplexMul(m, h, z, x, y) ==
    LET p == PointerCopy(m, h, "w", x).mem["w"]
        q == PointerCopy(m, h, "w", y).mem["w"]
        l == (h[p.l] * h[q.l]) - (h[q.r] * h[p.r])
        r == (h[q.r] * h[p.l]) + (h[p.r] * h[q.l])
    IN  [mem |-> [m EXCEPT ![z] = [l |-> Len(h) + 1, r |-> Len(h) + 2]],
         heap |-> h \o <<l, r>>]

\* y.Quad() of the pointer-component Complex.
PointerComplexQuad(h, e) == (h[e.l] * h[e.l]) + (h[e.r] * h[e.r])

\* z.Quo(x, y) of the pointer-component Complex:
\*     quad := y.Quad(); z.Conj(y); z.Mul(x, z)
\*     z.SetL(new(big.Int).Quo(z.L(), quad)); z.SetR(...)
\* big.Int.Quo panics with a division by zero when quad is 0.
PointerComplexQuo(m, h, z, x, y) ==
    LET quad == PointerComplexQuad(h, m[y])
        s1 == PointerConj(m, h, z, y)
        s2 == PointerComplexMul(s1.mem, s1.heap, z, x, z)
        n == Len(s2.heap)
        v == Deref(s2.heap, s2.mem[z])
    IN  IF quad = 0
        THEN [mem |-> s2.mem, heap |-> s2.heap, err |-> "division by zero"]
        ELSE [mem |-> [s2.mem EXCEPT ![z] = [l |-> n + 1, r |-> n + 2]],
              heap |-> s2.heap \o <<IntQuo(v.l, quad), IntQuo(v.r, quad)>>,
              err |-> ""]

(***************************************************************************)
(* The operands of a run.                                                  *)
(***************************************************************************)
\* The integer vectors of length n >= 1 whose absolute values sum to k.
RECURSIVE VectorsOfWeight(_, _)
VectorsOfWeight(n, k) ==
    IF n = 1 THEN {<<k>>, <<-k>>}
    ELSE LET h == n \div 2
         IN  UNION {{a \o b : a \in VectorsOfWeight(h, j),
                              b \in VectorsOfWeight(n - h, k - j)} : j \in 0..k}

Objects == {"w", "x", "y", "z"}

\* A memory whose operands w, x, y have the components vw, vx, vy and whose
\* fourth object z is new(T).
Memory(t, vw, vx, vy) ==
    [o \in Objects |->
        CASE o = "w" -> New(t, vw)
          [] o = "x" -> New(t, vx)
          [] o = "y" -> New(t, vy)
          [] OTHER -> Zero(t)]

ZeroVector(t) == [i \in 1..Dim(t) |-> 0]

\* No call made yet, on the receiver z.
Fresh ==
    /\ rcv = "z"
    /\ op = <<"new">>
    /\ ret = 0
    /\ err = ""
    /\ heap = <<>>

\* Two operands x and y of a type of T, of weight at most k together; w and
\* the receiver z are new(T).
Operands(T, k) ==
    /\ ty \in T
    /\ \E i \in 0..k : \E j \in 0..(k - i) :
          \E vx \in VectorsOfWeight(Dim(ty), i) :
             \E vy \in VectorsOfWeight(Dim(ty), j) :
                mem = Memory(ty, ZeroVector(ty), vx, vy)

Init == Operands(Types, MaxWeight) /\ Fresh

\* The same operands, and a receiver that already holds a value, that of x:
\* z = new(T).Set(x).
InitQuo ==
    /\ ty \in Types
    /\ \E i \in 0..MaxWeightQuo : \E j \in 0..(MaxWeightQuo - i) :
          \E vx \in VectorsOfWeight(Dim(ty), i) :
             \E vy \in VectorsOfWeight(Dim(ty), j) :
                mem = [Memory(ty, ZeroVector(ty), vx, vy) EXCEPT
                          !["z"] = New(ty, vx)]
    /\ Fresh

\* The types made by doubling a level-0 type; they have a Commutator.
DoubledTypes == Types \ {"Complex", "Perplex", "Infra"}

\* Two operands of a doubled type.
InitCommutator == Operands(DoubledTypes, MaxWeightCommutator) /\ Fresh

\* Two operands x and y, and w a copy of x: w = new(T).Set(x).
InitConj ==
    /\ ty \in Types
    /\ \E i \in 0..MaxWeightConj : \E j \in 0..(MaxWeightConj - i) :
          \E vx \in VectorsOfWeight(Dim(ty), i) :
             \E vy \in VectorsOfWeight(Dim(ty), j) :
                mem = Memory(ty, vx, vx, vy)
    /\ Fresh

\* The basis units of type t and their negatives, as components.
SignedUnits(t) == VectorsOfWeight(Dim(t), 1)

\* Three operands w, x, y, each a basis unit or the negative of one.
InitUnits ==
    /\ ty \in Types
    /\ \E vw \in SignedUnits(ty) : \E vx \in SignedUnits(ty) :
          \E vy \in SignedUnits(ty) : mem = Memory(ty, vw, vx, vy)
    /\ Fresh

\* Two operands w and x to add or subtract, and a third operand y to
\* multiply by: a basis unit, the negative of one, or zero.
InitDistributive ==
    /\ ty \in Types
    /\ \E i \in 0..MaxWeightDistributive :
          \E j \in 0..(MaxWeightDistributive - i) :
             \E vw \in VectorsOfWeight(Dim(ty), i) :
                \E vx \in VectorsOfWeight(Dim(ty), j) :
                   \E vy \in SignedUnits(ty) \cup {ZeroVector(ty)} :
                      mem = Memory(ty, vw, vx, vy)
    /\ Fresh

\* Pointer-component objects: the caller's integers a, b, c, d are the heap
\* addresses 1..4, x = NewT(a, b), y = NewT(c, d), and w and z are new(T),
\* whose pointers are nil.
InitPointer ==
    /\ ty \in {"Complex", "Perplex", "Infra"}
    /\ heap \in [1..4 -> -MaxInt..MaxInt]
    /\ mem = [o \in Objects |->
                CASE o = "x" -> PointerNew(1, 2)
                  [] o = "y" -> PointerNew(3, 4)
                  [] OTHER -> PointerNew(0, 0)]
    /\ rcv = "z"
    /\ op = <<"new">>
    /\ ret = 0
    /\ err = ""

\* Two operands of a product that is divided again.
InitMulQuo == Operands(Types, MaxWeightMulQuo) /\ Fresh

\* Two operands of calls whose receiver is one of them.
InitAlias == Operands(Types, MaxWeightAlias) /\ Fresh

\* Two Cayley operands.
InitCayley == Operands({"Cayley"}, MaxWeightAssociator) /\ Fresh

\* One operand x.
InitUnary ==
    /\ ty \in Types
    /\ \E i \in 0..MaxWeight1 : \E vx \in VectorsOfWeight(Dim(ty), i) :
          mem = Memory(ty, ZeroVector(ty), vx, ZeroVector(ty))
    /\ Fresh

\* Three operands w, x, y.
InitTriple ==
    /\ ty \in Types
    /\ \E i \in 0..MaxWeight3 : \E j \in 0..(MaxWeight3 - i) :
          \E k \in 0..(MaxWeight3 - i - j) :
             \E vw \in VectorsOfWeight(Dim(ty), i) :
                \E vx \in VectorsOfWeight(Dim(ty), j) :
                   \E vy \in VectorsOfWeight(Dim(ty), k) :
                      mem = Memory(ty, vw, vx, vy)
    /\ Fresh

TypeOK ==
    /\ ty \in Types
    /\ DOMAIN mem = Objects
    /\ rcv \in Objects
    /\ err \in {"", "zero denominator", "denominator is zero",
                "denominator is zero divisor", "division by zero"}

(***************************************************************************)
(* The calls of a client.                                                  *)
(***************************************************************************)
\* rcv.Mul(a, b)
CallMul(a, b) ==
    /\ mem' = DoMul(ty, mem, rcv, a, b)
    /\ op' = <<"Mul", a, b>>
    /\ UNCHANGED <<ty, rcv, ret, err, heap>>

\* z.Mul(x, y)
MulXY == op = <<"new">> /\ CallMul("x", "y")

\* l.Mul(l.Mul(w, x), y), the inner call and then the outer one.
MulWX == op = <<"new">> /\ CallMul("w", "x")

MulZY == op = <<"Mul", "w", "x">> /\ CallMul(rcv, "y")

\* z.Quo(x, y)
CallQuo ==
    /\ op = <<"new">>
    /\ ty # "Cayley"
    /\ LET r == Quo(ty, mem, rcv, "x", "y")
       IN  mem' = r.mem /\ err' = r.err
    /\ op' = <<"Quo", "x", "y">>
    /\ UNCHANGED <<ty, rcv, ret, heap>>

\* z.QuoL(x, y)
CallQuoL ==
    /\ op = <<"new">>
    /\ ty = "Cayley"
    /\ LET r == CayleyQuoL(mem, rcv, "x", "y")
       IN  mem' = r.mem /\ err' = r.err
    /\ op' = <<"QuoL", "x", "y">>
    /\ UNCHANGED <<ty, rcv, ret, heap>>

\* z.QuoR(x, y)
CallQuoR ==
    /\ op = <<"new">>
    /\ ty = "Cayley"
    /\ LET r == CayleyQuoR(mem, rcv, "x", "y")
       IN  mem' = r.mem /\ err' = r.err
    /\ op' = <<"QuoR", "x", "y">>
    /\ UNCHANGED <<ty, rcv, ret, heap>>

\* x.Quad()
CallQuad ==
    /\ op = <<"new">>
    /\ ret' = Quad(ty, mem["x"])
    /\ op' = <<"Quad", "x">>
    /\ UNCHANGED <<ty, mem, rcv, err, heap>>

\* x.IsZeroDiv()
CallIsZeroDiv ==
    /\ op = <<"new">>
    /\ ty \in ZeroDivTypes
    /\ ret' = IsZeroDiv(ty, mem["x"])
    /\ op' = <<"IsZeroDiv", "x">>
    /\ UNCHANGED <<ty, mem, rcv, err, heap>>

\* x.IsNilpotent(n)
CallIsNilpotent ==
    /\ op = <<"new">>
    /\ ty = "Cockle"
    /\ \E n \in 0..MaxPower :
          LET s == CockleIsNilpotent(mem["x"], n)
          IN  /\ ret' = s.ret
              /\ op' = <<"IsNilpotent", "x", n, s.muls>>
    /\ UNCHANGED <<ty, mem, rcv, err, heap>>

\* z.Associator(x, x, y) and z.Associator(x, y, y)
CallAssociator ==
    /\ op = <<"new">>
    /\ ty = "Cayley"
    /\ \E a \in {<<"x", "x", "y">>, <<"x", "y", "y">>} :
          /\ mem' = CayleyAssociator(mem, rcv, a[1], a[2], a[3])
          /\ op' = <<"Associator">> \o a
    /\ UNCHANGED <<ty, rcv, ret, err, heap>>

\* z.Associator(w, x, y)
AssociatorWXY ==
    /\ op = <<"new">>
    /\ ty = "Cayley"
    /\ mem' = CayleyAssociator(mem, rcv, "w", "x", "y")
    /\ op' = <<"Associator", "w", "x", "y">>
    /\ UNCHANGED <<ty, rcv, ret, err, heap>>

\* z.Commutator(x, y)
CallCommutator ==
    /\ op = <<"new">>
    /\ mem' = Commutator(ty, mem, rcv, "x", "y")
    /\ op' = <<"Commutator", "x", "y">>
    /\ UNCHANGED <<ty, rcv, ret, err, heap>>

\* l.Conj(l.Mul(x, y)): the outer call, after the inner one.
ConjMul ==
    /\ op = <<"Mul", "x", "y">>
    /\ mem' = DoConj(ty, mem, rcv, rcv)
    /\ op' = <<"Conj", "Mul", "x", "y">>
    /\ UNCHANGED <<ty, rcv, ret, err, heap>>

\* l.Conj(x), on a new receiver l or on x itself.
ConjX ==
    /\ op = <<"new">>
    /\ \E r \in {"z", "x"} :
          /\ rcv' = r
          /\ mem' = DoConj(ty, mem, r, "x")
    /\ op' = <<"Conj", "x">>
    /\ UNCHANGED <<ty, ret, err, heap>>

\* y.Mul(x, z) and y.Mul(z, x) after z.Conj(x)
MulConj ==
    /\ op = <<"Conj", "x">> /\ rcv = "z"
    /\ rcv' = "y"
    /\ \E o \in {<<"x", "z">>, <<"z", "x">>} :
          /\ mem' = DoMul(ty, mem, "y", o[1], o[2])
          /\ op' = <<"Mul", o[1], o[2]>>
    /\ UNCHANGED <<ty, ret, err, heap>>

\* l.Conj(l.Conj(x)): the outer call, after the inner one.
ConjConj ==
    /\ op = <<"Conj", "x">>
    /\ mem' = DoConj(ty, mem, rcv, rcv)
    /\ op' = <<"Conj", "Conj", "x">>
    /\ UNCHANGED <<ty, rcv, ret, err, heap>>

\* l.Add(w, x), the inner call of l.Mul(l.Add(w, x), y)
AddWX ==
    /\ op = <<"new">>
    /\ mem' = DoAdd(ty, mem, rcv, "w", "x")
    /\ op' = <<"Add", "w", "x">>
    /\ UNCHANGED <<ty, rcv, ret, err, heap>>

\* l.Sub(w, x), the inner call of l.Mul(l.Sub(w, x), y)
SubWX ==
    /\ op = <<"new">>
    /\ mem' = DoSub(ty, mem, rcv, "w", "x")
    /\ op' = <<"Sub", "w", "x">>
    /\ UNCHANGED <<ty, rcv, ret, err, heap>>

\* l.Mul(l, y), the outer call of l.Mul(l.Add(w, x), y) and of the same
\* with Sub.
MulSumY ==
    /\ op \in {<<"Add", "w", "x">>, <<"Sub", "w", "x">>}
    /\ mem' = DoMul(ty, mem, rcv, rcv, "y")
    /\ op' = <<"Mul", "l", "y">> \o op
    /\ UNCHANGED <<ty, rcv, ret, err, heap>>

\* l.Mul(y, l), the outer call of l.Mul(y, l.Add(w, x)) and of the same
\* with Sub.
MulYSum ==
    /\ op \in {<<"Add", "w", "x">>, <<"Sub", "w", "x">>}
    /\ mem' = DoMul(ty, mem, rcv, "y", rcv)
    /\ op' = <<"Mul", "y", "l">> \o op
    /\ UNCHANGED <<ty, rcv, ret, err, heap>>

\* z := NewT(a, b) on the caller's integers a and b.
PointerCallNew ==
    /\ op = <<"new">>
    /\ mem' = [mem EXCEPT ![rcv] = PointerNew(1, 2)]
    /\ op' = <<"New", "a", "b">>
    /\ UNCHANGED <<ty, rcv, ret, err, heap>>

\* z.Copy(y)
PointerCallCopy ==
    /\ op = <<"new">>
    /\ LET s == PointerCopy(mem, heap, rcv, "y")
       IN  mem' = s.mem /\ heap' = s.heap
    /\ op' = <<"Copy", "y">>
    /\ UNCHANGED <<ty, rcv, ret, err>>

\* z.Conj(y)
PointerCallConj ==
    /\ op = <<"new">>
    /\ LET s == PointerConj(mem, heap, rcv, "y")
       IN  mem' = s.mem /\ heap' = s.heap
    /\ op' = <<"Conj", "y">>
    /\ UNCHANGED <<ty, rcv, ret, err>>

\* The caller changes one of its integers a, b, c, d in place, after z was
\* made from them: p.Add(p, one), where c and d are also y.L() and y.R().
BigIntAdd ==
    /\ op \in {<<"New", "a", "b">>, <<"Copy", "y">>, <<"Conj", "y">>}
    /\ \E p \in 1..4 :
          /\ heap' = [heap EXCEPT ![p] = heap[p] + 1]
          /\ op' = <<"big.Int.Add", p>>
    /\ UNCHANGED <<ty, mem, rcv, ret, err>>

\* z.Quo(x, y) of the pointer-component Complex, on a z that holds a value.
PointerCallQuo ==
    /\ op \in {<<"New", "a", "b">>, <<"Copy", "y">>, <<"Conj", "y">>}
    /\ ty = "Complex"
    /\ LET s == PointerComplexQuo(mem, heap, rcv, "x", "y")
       IN  mem' = s.mem /\ heap' = s.heap /\ err' = s.err
    /\ op' = <<"Quo", "x", "y">>
    /\ UNCHANGED <<ty, rcv, ret>>

\* w.Mul(x, y) and w.Mul(y, x)
MulIntoW ==
    /\ op = <<"new">>
    /\ rcv' = "w"
    /\ \E o \in {<<"x", "y">>, <<"y", "x">>} :
          /\ mem' = DoMul(ty, mem, "w", o[1], o[2])
          /\ op' = <<"Mul", o[1], o[2]>>
    /\ UNCHANGED <<ty, ret, err, heap>>

\* z.Quo(w, y) after w.Mul(x, y); for Cayley z.QuoR(w, y) after w.Mul(x, y)
\* and z.QuoL(w, y) after w.Mul(y, x).
QuoWY ==
    /\ op[1] = "Mul" /\ rcv = "w"
    /\ op = <<"Mul", "y", "x">> => ty = "Cayley"
    /\ rcv' = "z"
    /\ LET r == CASE ty # "Cayley" -> Quo(ty, mem, "z", "w", "y")
                  [] ty = "Cayley" /\ op[2] = "x" -> CayleyQuoR(mem, "z", "w", "y")
                  [] OTHER -> CayleyQuoL(mem, "z", "w", "y")
           name == CASE ty # "Cayley" -> "Quo"
                     [] ty = "Cayley" /\ op[2] = "x" -> "QuoR"
                     [] OTHER -> "QuoL"
       IN  mem' = r.mem /\ err' = r.err /\ op' = <<name, "w", "y">>
    /\ UNCHANGED <<ty, ret, heap>>

\* r.Mul(a, b) with the receiver r one of a and b: x.Mul(x, y), y.Mul(x, y),
\* x.Mul(x, x), ... and, after z.Mul(x, y), the outer call of a chain such as
\* z.Mul(z.Mul(x, y), y).
MulAliased ==
    /\ \E a \in {"x", "y", "z"} : \E b \in {"x", "y", "z"} : \E r \in {a, b} :
          /\ IF "z" \in {a, b} THEN op = <<"Mul", "x", "y">> /\ rcv = "z"
                               ELSE op = <<"new">>
          /\ rcv' = r
          /\ mem' = DoMul(ty, mem, r, a, b)
          /\ op' = <<"Mul", a, b>>
    /\ UNCHANGED <<ty, ret, err, heap>>

\* x.Quo(x, y) and y.Quo(x, y): the receiver is the numerator or the
\* denominator; for Cayley QuoL and QuoR.
QuoAliased ==
    /\ op = <<"new">>
    /\ \E r \in {"x", "y"} :
       \E n \in IF ty = "Cayley" THEN {"QuoL", "QuoR"} ELSE {"Quo"} :
          LET s == QuoNamed(n, ty, mem, r, "x", "y")
          IN  /\ rcv' = r
              /\ mem' = s.mem
              /\ err' = s.err
              /\ op' = <<n, "x", "y">>
    /\ UNCHANGED <<ty, ret, heap>>

\* x.Commutator(x, y) and y.Commutator(x, y)
CommutatorAliased ==
    /\ op = <<"new">>
    /\ ty \in DoubledTypes
    /\ \E r \in {"x", "y"} :
          /\ rcv' = r
          /\ mem' = Commutator(ty, mem, r, "x", "y")
    /\ op' = <<"Commutator", "x", "y">>
    /\ UNCHANGED <<ty, ret, err, heap>>

\* r.Associator(x, y, x) with the receiver r one of x and y
AssociatorAliased ==
    /\ op = <<"new">>
    /\ ty = "Cayley"
    /\ \E r \in {"x", "y"} :
          /\ rcv' = r
          /\ mem' = CayleyAssociator(mem, r, "x", "y", "x")
    /\ op' = <<"Associator", "x", "y", "x">>
    /\ UNCHANGED <<ty, ret, err, heap>>

\* a := big.NewInt(n), the scalar of a later call of Scal.
NewInt ==
    /\ op = <<"new">>
    /\ \E n \in -MaxInt..MaxInt : heap' = <<n>>
    /\ op' = <<"big.NewInt">>
    /\ UNCHANGED <<ty, mem, rcv, ret, err>>

\* z.Scal(x, a)
CallScal ==
    /\ op = <<"big.NewInt">>
    /\ mem' = [mem EXCEPT ![rcv] = Scal(ty, mem["x"], heap[1])]
    /\ op' = <<"Scal", "x">>
    /\ UNCHANGED <<ty, rcv, ret, err, heap>>

\* z.Neg(x)
CallNeg ==
    /\ op = <<"new">>
    /\ mem' = [mem EXCEPT ![rcv] = Neg(ty, mem["x"])]
    /\ op' = <<"Neg", "x">>
    /\ UNCHANGED <<ty, rcv, ret, err, heap>>

\* x.Equals(y)
CallEquals ==
    /\ op = <<"new">>
    /\ ret' = Equals(ty, mem["x"], mem["y"])
    /\ op' = <<"Equals", "x", "y">>
    /\ UNCHANGED <<ty, mem, rcv, err, heap>>

Next == MulXY

Spec == Init /\ [][Next]_vars

NextQuo == CallQuo \/ CallQuoL \/ CallQuoR

SpecQuo == InitQuo /\ [][NextQuo]_vars

NextUnary == CallQuad \/ CallIsZeroDiv \/ CallIsNilpotent

SpecUnary == InitUnary /\ [][NextUnary]_vars

NextAssociator == CallAssociator

SpecAssociator == InitCayley /\ [][NextAssociator]_vars

NextCommutator == CallCommutator

SpecCommutator == InitCommutator /\ [][NextCommutator]_vars

NextConj == MulXY \/ ConjMul \/ ConjX \/ ConjConj \/ MulConj

SpecConj == InitConj /\ [][NextConj]_vars

NextDistributive == AddWX \/ SubWX \/ MulSumY \/ MulYSum

SpecDistributive == InitDistributive /\ [][NextDistributive]_vars

NextPointer ==
    \/ PointerCallNew
    \/ PointerCallCopy
    \/ PointerCallConj
    \/ BigIntAdd
    \/ PointerCallQuo

SpecPointer == InitPointer /\ [][NextPointer]_vars

NextMulQuo == MulIntoW \/ QuoWY

SpecMulQuo == InitMulQuo /\ [][NextMulQuo]_vars

NextAlias ==
    \/ MulXY
    \/ MulAliased
    \/ QuoAliased
    \/ CommutatorAliased
    \/ AssociatorAliased

SpecAlias == InitAlias /\ [][NextAlias]_vars

NextFrame ==
    \/ MulXY
    \/ AddWX
    \/ SubWX
    \/ CallNeg
    \/ ConjX
    \/ NewInt
    \/ CallScal
    \/ (ty \in DoubledTypes /\ CallCommutator)
    \/ CallAssociator
    \/ CallQuo
    \/ CallQuoL
    \/ CallQuoR
    \/ CallQuad
    \/ CallIsZeroDiv
    \/ CallEquals

SpecFrame == InitAlias /\ [][NextFrame]_vars

NextTriple == MulWX \/ MulZY

NextUnits == MulXY \/ AssociatorWXY

SpecUnits == InitUnits /\ [][NextUnits]_vars

SpecTriple == InitTriple /\ [][NextTriple]_vars

(***************************************************************************)
(* Properties.                                                             *)
(***************************************************************************)
\* The types built with the doubling parameter -1 at every level.
Definite == {"Complex", "Hamilton", "Cayley"}

\* The outermost doubling parameter of each type.
Mu(t) ==
    CASE t \in Definite -> -1
      [] t \in {"Perplex", "Cockle"} -> 1
      [] OTHER -> 0

\* The algebra of the halves of each type ("Int": the integers).
BaseType(t) ==
    CASE t \in {"Complex", "Perplex", "Infra"} -> "Int"
      [] t \in {"Hamilton", "Cockle", "InfraComplex"} -> "Complex"
      [] t = "InfraPerplex" -> "Perplex"
      [] t = "Supra" -> "Infra"
      [] t = "Cayley" -> "Hamilton"

BaseComponents(b, p) == IF b = "Int" THEN <<p>> ELSE Cartesian(b, p)

BaseMul(b, p, q) == IF b = "Int" THEN p * q ELSE Mul(b, p, q)

BaseConj(b, p) == IF b = "Int" THEN p ELSE Conj(b, p)

\* The components of (a*c + mu*conj(d)*b, d*a + b*conj(c)) for x = (a, b) and
\* y = (c, d), the products being those of the base algebra.
DoublingProduct(t, x, y) ==
    LET B == BaseType(t)
        ac == BaseComponents(B, BaseMul(B, x.l, y.l))
        db == BaseComponents(B, BaseMul(B, BaseConj(B, y.r), x.r))
        da == BaseComponents(B, BaseMul(B, y.r, x.l))
        bc == BaseComponents(B, BaseMul(B, x.r, BaseConj(B, y.l)))
    IN  [i \in 1..Len(ac) |-> ac[i] + (Mu(t) * db[i])]
           \o [i \in 1..Len(da) |-> da[i] + bc[i]]

IsZero(t, z) == \A i \in 1..Dim(t) : Cartesian(t, z)[i] = 0

Weight(t, z) ==
    LET c == Cartesian(t, z)
        RECURSIVE Sum(_)
        Sum(i) == IF i = 0 THEN 0 ELSE Abs(c[i]) + Sum(i - 1)
    IN  Sum(Dim(t))

\* C1: for every type, z.Mul(x, y) is (a*c + mu*conj(d)*b, d*a + b*conj(c))
\* computed in the base algebra, with mu the doubling parameter of the type.
C1_MulIsDoublingProduct ==
    op = <<"Mul", "x", "y">> =>
        Cartesian(ty, mem["z"]) = DoublingProduct(ty, mem["x"], mem["y"])

\* A Cockle product (mu = +1) in which the term mu*conj(d)*b is not zero.
C1_Witness ==
    /\ op = <<"Mul", "x", "y">>
    /\ ty = "Cockle"
    /\ ~IsZero("Complex", ComplexMul(ComplexConj(mem["y"].r), mem["x"].r))

\* C2: composition law: Quad(Mul(x, y)) = Quad(x) * Quad(y) for every type.
C2_Composition ==
    op = <<"Mul", "x", "y">> =>
        Quad(ty, mem["z"]) = Quad(ty, mem["x"]) * Quad(ty, mem["y"])

\* A Cayley product of two elements neither of which is a unit.
C2_Witness ==
    /\ op = <<"Mul", "x", "y">>
    /\ ty = "Cayley"
    /\ Quad(ty, mem["x"]) > 1
    /\ Quad(ty, mem["y"]) > 1

\* The messages of the checks of the denominator.
DenominatorPanics ==
    {"zero denominator", "denominator is zero", "denominator is zero divisor"}

QuoCalls == {<<"Quo", "x", "y">>, <<"QuoL", "x", "y">>, <<"QuoR", "x", "y">>}

\* The denominators the claim says are rejected.
Rejected(t, y) == IF t \in Definite THEN IsZero(t, y) ELSE IsZeroDiv(t, y)

\* C3: Quo, QuoL and QuoR fail with a zero-denominator error exactly when y
\* is zero (Complex, Hamilton, Cayley) or IsZeroDiv(y) (the other types);
\* for every other y they return and no integer division by zero occurs.
C3_QuoFailsExactlyOnRejected ==
    op \in QuoCalls =>
        /\ err # "division by zero"
        /\ Rejected(ty, mem["y"]) => err \in DenominatorPanics
        /\ ~Rejected(ty, mem["y"]) => err = ""

\* A denominator that is not zero is rejected as a zero divisor.
C3_Witness ==
    /\ op \in QuoCalls
    /\ err = "denominator is zero divisor"
    /\ ~IsZero(ty, mem["y"])

\* q is n / d rounded toward zero.
IsTruncatedQuotient(q, n, d) ==
    LET rem == n - (q * d)
    IN  /\ Abs(rem) < Abs(d)
        /\ rem # 0 => ((rem > 0) = (n > 0))

\* C4: when Quo(x, y) succeeds on a receiver that is not an operand, each
\* component of the result is the component of Mul(x, Conj(y)) divided by
\* Quad(y) and rounded toward zero.
C4_QuoTruncates ==
    (op = <<"Quo", "x", "y">> /\ err = "") =>
        LET n == Cartesian(ty, Mul(ty, mem["x"], Conj(ty, mem["y"])))
            q == Cartesian(ty, mem["z"])
        IN  \A i \in 1..Dim(ty) :
                IsTruncatedQuotient(q[i], n[i], Quad(ty, mem["y"]))

\* A quotient with a negative Quad(y) and a component that rounding down
\* would make -1.
C4_Witness ==
    /\ op = <<"Quo", "x", "y">>
    /\ err = ""
    /\ Quad(ty, mem["y"]) < 0
    /\ LET n == Cartesian(ty, Mul(ty, mem["x"], Conj(ty, mem["y"])))
       IN  \E i \in 1..Dim(ty) : n[i] > 0 /\ n[i] < -Quad(ty, mem["y"])
                                          /\ Cartesian(ty, mem["z"])[i] = 0

\* C5: a Quo, QuoL or QuoR call that fails on its check of the denominator
\* leaves the receiver and both operands as they were before the call.
C5_NoPartialResult ==
    [][(op' \in QuoCalls /\ err' \in DenominatorPanics) => mem' = mem]_vars

\* A failed call on a receiver that holds a value.
C5_Witness ==
    /\ op \in QuoCalls
    /\ err \in DenominatorPanics
    /\ ~IsZero(ty, mem["z"])

\* C6: for Perplex, Cockle, Infra, InfraComplex, InfraPerplex and Supra,
\* IsZeroDiv(x) iff Quad(x) = 0; for Perplex iff l = r or l = -r; for Infra
\* iff the real part is 0.
C6_IsZeroDivIffQuadZero ==
    op = <<"IsZeroDiv", "x">> =>
        /\ ret <=> (Quad(ty, mem["x"]) = 0)
        /\ ty = "Perplex" =>
              (ret <=> (mem["x"].l = mem["x"].r \/ mem["x"].l = -mem["x"].r))
        /\ ty = "Infra" => (ret <=> (mem["x"].l = 0))

\* A Perplex zero divisor with l = -r # 0.
C6_Witness ==
    /\ op = <<"IsZeroDiv", "x">>
    /\ ty = "Perplex"
    /\ ret
    /\ mem["x"].l = -mem["x"].r
    /\ mem["x"].l # 0

\* C7: for Complex, Hamilton and Cayley, Quad(x) >= 0, and Quad(x) = 0 iff
\* x is zero.
C7_QuadPositiveDefinite ==
    (op = <<"Quad", "x">> /\ ty \in Definite) =>
        /\ ret >= 0
        /\ (ret = 0) <=> IsZero(ty, mem["x"])

\* The quadrance of a Hamilton element with negative components in both
\* halves.
C7_Witness ==
    /\ op = <<"Quad", "x">>
    /\ ty = "Hamilton"
    /\ mem["x"].l.r < 0
    /\ mem["x"].r.l < 0
    /\ ret > 1

\* C8: for Complex, Hamilton and Cayley, Mul(x, y) is zero only if x is zero
\* or y is zero.
C8_NoZeroDivisors ==
    (op = <<"Mul", "x", "y">> /\ ty \in Definite /\ IsZero(ty, mem["z"])) =>
        (IsZero(ty, mem["x"]) \/ IsZero(ty, mem["y"]))

\* A zero product of a definite type with one operand that is not zero.
C8_Witness ==
    /\ op = <<"Mul", "x", "y">>
    /\ ty \in Definite
    /\ IsZero(ty, mem["z"])
    /\ ~IsZero(ty, mem["x"])

\* C9: Cayley is alternative: Associator(x, x, y) and Associator(x, y, y)
\* are zero.
C9_Alternative ==
    (op[1] = "Associator") => IsZero("Cayley", mem["z"])

\* An associator of two elements that do not commute.
C9_Witness ==
    /\ op = <<"Associator", "x", "y", "y">>
    /\ CayleyMul(mem["x"], mem["y"]) # CayleyMul(mem["y"], mem["x"])
    /\ Weight("Cayley", mem["y"]) > 1

\* C10: for every type but Cayley, Mul(Mul(w, x), y) = Mul(w, Mul(x, y)).
C10_MulAssociative ==
    (op = <<"Mul", "z", "y">> /\ ty # "Cayley") =>
        mem["z"] = Mul(ty, mem["w"], Mul(ty, mem["x"], mem["y"]))

\* A product of three Supra elements that is not zero.
C10_Witness ==
    /\ op = <<"Mul", "z", "y">>
    /\ ty = "Supra"
    /\ ~IsZero(ty, mem["z"])
    /\ ~IsZero("Infra", mem["w"].r)

(***************************************************************************)
(* C11: Cayley multiplication is not associative: the associator of the    *)
(* basis units i, j and m (components 2, 3 and 5) is not the zero element. *)
(***************************************************************************)
\* The element of type t whose k-th component is 1 and whose others are 0.
Unit(t, k) == New(t, [n \in 1..Dim(t) |-> IF n = k THEN 1 ELSE 0])

C11_AssociatorOfUnitsNonZero ==
    (/\ op = <<"Associator", "w", "x", "y">>
     /\ mem["w"] = Unit("Cayley", 2)
     /\ mem["x"] = Unit("Cayley", 3)
     /\ mem["y"] = Unit("Cayley", 5))
        => ~CayleyEquals(mem[rcv], CayleyZero)

C11_Witness ==
    /\ op = <<"Associator", "w", "x", "y">>
    /\ mem["w"] = Unit("Cayley", 2)
    /\ mem["x"] = Unit("Cayley", 3)
    /\ mem["y"] = Unit("Cayley", 5)
    /\ mem[rcv] = NewCayley(0, 0, 0, 0, 0, 0, 0, 2)

(***************************************************************************)
(* C12: Mul is commutative for the level-0 types: for Complex, Perplex and *)
(* Infra, z.Mul(x, y) leaves in z the value of Mul(y, x).                  *)
(***************************************************************************)
Level0 == {"Complex", "Perplex", "Infra"}

C12_MulCommutative ==
    (op = <<"Mul", "x", "y">> /\ ty \in Level0)
        => mem[rcv] = Mul(ty, mem["y"], mem["x"])

C12_Witness ==
    /\ op = <<"Mul", "x", "y">>
    /\ ty = "Perplex"
    /\ mem["x"] = NewPerplex(1, 2)
    /\ mem["y"] = NewPerplex(0, -1)
    /\ mem[rcv] = NewPerplex(-2, -1)

(***************************************************************************)
(* C13: Mul is not commutative for any doubled type: Commutator(x, y) is   *)
(* Mul(x, y) - Mul(y, x), and for the second and third basis units of each *)
(* of Hamilton, Cockle, InfraComplex, InfraPerplex, Supra and Cayley it is *)
(* not the zero element.                                                   *)
(***************************************************************************)
C13_MulNonCommutative ==
    op = <<"Commutator", "x", "y">> =>
        /\ mem[rcv] = Sub(ty, Mul(ty, mem["x"], mem["y"]),
                              Mul(ty, mem["y"], mem["x"]))
        /\ (mem["x"] = Unit(ty, 2) /\ mem["y"] = Unit(ty, 3))
              => mem[rcv] # Zero(ty)

C13_Witness ==
    /\ op = <<"Commutator", "x", "y">>
    /\ ty = "Supra"
    /\ mem["x"] = Unit(ty, 2)
    /\ mem["y"] = Unit(ty, 3)
    /\ mem[rcv] = NewSupra(0, 0, 0, 2)

(***************************************************************************)
(* C14: conjugation reverses products: for every type, the calls           *)
(* l.Conj(l.Mul(x, y)) leave in l the value Mul(Conj(y), Conj(x)).         *)
(***************************************************************************)
C14_ConjAntiDistributive ==
    op = <<"Conj", "Mul", "x", "y">> =>
        mem[rcv] = Mul(ty, Conj(ty, mem["y"]), Conj(ty, mem["x"]))

C14_Witness ==
    /\ op = <<"Conj", "Mul", "x", "y">>
    /\ ty = "Cayley"
    /\ mem["x"] = Unit(ty, 3)
    /\ mem["y"] = NewCayley(0, 0, 0, 0, 1, 1, 0, 0)
    /\ mem[rcv] # Mul(ty, Conj(ty, mem["x"]), Conj(ty, mem["y"]))

(***************************************************************************)
(* C16: Conj is an involution: for every type, two Conj calls in a row     *)
(* leave the value of x (kept in the copy w) in their receiver, also when  *)
(* the receiver of each call is its own argument.                          *)
(***************************************************************************)
C16_ConjInvolution ==
    op = <<"Conj", "Conj", "x">> => mem[rcv] = mem["w"]

C16_Witness ==
    /\ op = <<"Conj", "Conj", "x">>
    /\ rcv = "x"
    /\ ty = "InfraPerplex"
    /\ mem["x"] = NewInfraPerplex(0, 1, -1, 1)
    /\ mem["w"] = mem["x"]

(***************************************************************************)
(* C15: Mul distributes over Add and Sub from both sides, for every type:  *)
(* l.Mul(l.Add(w, x), y) leaves Add(Mul(w, y), Mul(x, y)) in l,            *)
(* l.Mul(y, l.Add(w, x)) leaves Add(Mul(y, w), Mul(y, x)), and the same    *)
(* with Sub in place of Add.                                               *)
(***************************************************************************)
C15_MulDistributive ==
    LET w == mem["w"]
        x == mem["x"]
        y == mem["y"]
    IN  /\ op = <<"Mul", "l", "y", "Add", "w", "x">>
              => mem[rcv] = Add(ty, Mul(ty, w, y), Mul(ty, x, y))
        /\ op = <<"Mul", "y", "l", "Add", "w", "x">>
              => mem[rcv] = Add(ty, Mul(ty, y, w), Mul(ty, y, x))
        /\ op = <<"Mul", "l", "y", "Sub", "w", "x">>
              => mem[rcv] = Sub(ty, Mul(ty, w, y), Mul(ty, x, y))
        /\ op = <<"Mul", "y", "l", "Sub", "w", "x">>
              => mem[rcv] = Sub(ty, Mul(ty, y, w), Mul(ty, y, x))

C15_Witness ==
    /\ op = <<"Mul", "y", "l", "Sub", "w", "x">>
    /\ ty = "Cockle"
    /\ mem["w"] = Unit(ty, 2)
    /\ mem["x"] = Unit(ty, 3)
    /\ mem["y"] = Unit(ty, 4)
    /\ mem[rcv] = NewCockle(0, -1, 1, 0)

(***************************************************************************)
(* C17: the element one, whose first component is 1 and whose others are   *)
(* 0, is a right identity of Mul for Complex, InfraComplex and Cayley:     *)
(* l.Mul(x, one) leaves the value of x in l.                               *)
(***************************************************************************)
C17_MulOne ==
    (/\ op = <<"Mul", "x", "y">>
     /\ ty \in {"Complex", "InfraComplex", "Cayley"}
     /\ mem["y"] = Unit(ty, 1))
        => mem[rcv] = mem["x"]

C17_Witness ==
    /\ op = <<"Mul", "x", "y">>
    /\ ty = "Cayley"
    /\ mem["y"] = Unit(ty, 1)
    /\ mem["x"] = NewCayley(0, 1, 0, 0, 0, -1, 0, 1)
    /\ mem[rcv] = mem["x"]

(***************************************************************************)
(* C18: on basis units, Mul gives the products listed in the doc comment   *)
(* of each type's Mul.  Units are numbered by component: for Hamilton      *)
(* i, j, k are 2, 3, 4, for Cayley i, j, k, m, n, p, q are 2..8, and the   *)
(* scalar 1 is 1.  A rule <<a, b, s, c>> reads Mul(a, b) = s times c.      *)
(***************************************************************************)
\* s times the c-th basis unit of type t.
Scaled(t, s, c) == New(t, [n \in 1..Dim(t) |-> IF n = c THEN s ELSE 0])

\* "Mul(a, b) = -Mul(b, a) = s c"
Anti(a, b, s, c) == {<<a, b, s, c>>, <<b, a, -s, c>>}

\* "Mul(a, b) = Mul(b, a) = 0"
Both0(a, b) == {<<a, b, 0, 1>>, <<b, a, 0, 1>>}

HamiltonTable ==
    {<<2, 2, -1, 1>>, <<3, 3, -1, 1>>, <<4, 4, -1, 1>>}
        \cup Anti(2, 3, 1, 4) \cup Anti(3, 4, 1, 2) \cup Anti(4, 2, 1, 3)

CockleTable ==
    {<<2, 2, -1, 1>>, <<3, 3, 1, 1>>, <<4, 4, 1, 1>>}
        \cup Anti(2, 3, 1, 4) \cup Anti(4, 3, 1, 2) \cup Anti(4, 2, 1, 3)

InfraComplexTable ==
    {<<2, 2, -1, 1>>, <<3, 3, 0, 1>>, <<4, 4, 0, 1>>}
        \cup Both0(3, 4) \cup Anti(2, 3, 1, 4) \cup Anti(4, 2, 1, 3)

InfraPerplexTable ==
    {<<2, 2, 1, 1>>, <<3, 3, 0, 1>>, <<4, 4, 0, 1>>}
        \cup Both0(3, 4) \cup Anti(2, 3, 1, 4) \cup Anti(2, 4, 1, 3)

SupraTable ==
    {<<2, 2, 0, 1>>, <<3, 3, 0, 1>>, <<4, 4, 0, 1>>}
        \cup Anti(2, 3, 1, 4) \cup Both0(3, 4) \cup Both0(4, 2)

CayleyTable ==
    {<<a, a, -1, 1>> : a \in 2..8}
        \cup Anti(2, 3, 1, 4) \cup Anti(2, 4, -1, 3) \cup Anti(2, 5, 1, 6)
        \cup Anti(2, 6, -1, 5) \cup Anti(2, 7, -1, 8) \cup Anti(2, 8, 1, 7)
        \cup Anti(3, 4, 1, 2) \cup Anti(3, 5, 1, 7) \cup Anti(3, 6, 1, 8)
        \cup Anti(3, 7, -1, 5) \cup Anti(3, 8, -1, 6) \cup Anti(4, 5, 1, 8)
        \cup Anti(4, 6, -1, 7) \cup Anti(4, 7, 1, 6) \cup Anti(4, 8, -1, 5)
        \cup Anti(5, 6, 1, 2) \cup Anti(5, 7, 1, 3) \cup Anti(5, 8, 1, 4)
        \cup Anti(6, 7, -1, 4) \cup Anti(6, 8, 1, 3) \cup Anti(7, 8, -1, 2)

Table(t) ==
    CASE t = "Hamilton" -> HamiltonTable
      [] t = "Cockle" -> CockleTable
      [] t = "InfraComplex" -> InfraComplexTable
      [] t = "InfraPerplex" -> InfraPerplexTable
      [] t = "Supra" -> SupraTable
      [] t = "Cayley" -> CayleyTable
      [] OTHER -> {}

C18_MulTable ==
    op = <<"Mul", "x", "y">> =>
        \A e \in Table(ty) :
            (mem["x"] = Unit(ty, e[1]) /\ mem["y"] = Unit(ty, e[2]))
                => mem[rcv] = Scaled(ty, e[3], e[4])

C18_Witness ==
    /\ op = <<"Mul", "x", "y">>
    /\ ty = "Cayley"
    /\ mem["x"] = Unit(ty, 7)
    /\ mem["y"] = Unit(ty, 8)
    /\ mem[rcv] = Scaled(ty, -1, 2)

(***************************************************************************)
(* C19 as claimed: for every type whose outermost doubling parameter is +1 *)
(* or 0, Quad takes a negative value for some element, zero for some       *)
(* element and a positive value for some element.  The elements are those  *)
(* a run of SpecUnary draws x from.                                        *)
(***************************************************************************)
Elements(t) ==
    {New(t, v) : v \in UNION {VectorsOfWeight(Dim(t), k) : k \in 0..MaxWeight1}}

C19_QuadIndefinite ==
    (op = <<"Quad", "x">> /\ Mu(ty) \in {1, 0}) =>
        /\ \E e \in Elements(ty) : Quad(ty, e) < 0
        /\ \E e \in Elements(ty) : Quad(ty, e) = 0
        /\ \E e \in Elements(ty) : Quad(ty, e) > 0

(***************************************************************************)
(* C19 as amended: for Perplex, Cockle and InfraPerplex, Quad takes a      *)
(* negative value (on the unit j, t, s), zero (on the zero element) and a  *)
(* positive value (on one); for Infra, InfraComplex and Supra, Quad is     *)
(* never negative: it takes zero (also on the last basis unit, which is    *)
(* not the zero element) and a positive value (on one).                    *)
(***************************************************************************)
\* The types whose Quad is the Quad of their l half alone, over the integers
\* or over Complex.
Degenerate == {"Infra", "InfraComplex", "Supra"}

\* The component of a unit on which Quad is negative.
NegativeUnit(t) ==
    CASE t = "Perplex" -> 2
      [] t = "Cockle" -> 3
      [] t = "InfraPerplex" -> 2

C19_QuadSigns ==
    (op = <<"Quad", "x">> /\ Mu(ty) \in {1, 0}) =>
        /\ mem["x"] = Unit(ty, 1) => ret > 0
        /\ mem["x"] = Zero(ty) => ret = 0
        /\ ty \in Degenerate =>
              /\ ret >= 0
              /\ mem["x"] = Unit(ty, Dim(ty)) => ret = 0
        /\ (ty \notin Degenerate /\ mem["x"] = Unit(ty, NegativeUnit(ty)))
              => ret < 0

C19_Witness ==
    /\ op = <<"Quad", "x">>
    /\ ty = "Supra"
    /\ mem["x"] = NewSupra(1, -2, 1, 1)
    /\ ret = 1

(***************************************************************************)
(* C20: for Infra, InfraComplex and InfraPerplex, IsZeroDiv(x) is true if  *)
(* and only if some positive power of x (x multiplied by itself with Mul)  *)
(* is the zero element.                                                    *)
(***************************************************************************)
\* x multiplied by itself: x^n, for n >= 1.
RECURSIVE Power(_, _, _)
Power(t, x, n) == IF n = 1 THEN x ELSE Mul(t, Power(t, x, n - 1), x)

IsNilpotent(t, x) == \E n \in 1..MaxPower : Power(t, x, n) = Zero(t)

C20_IsZeroDivIffNilpotent ==
    (op = <<"IsZeroDiv", "x">> /\ ty \in {"Infra", "InfraComplex", "InfraPerplex"})
        => (ret <=> IsNilpotent(ty, mem["x"]))

(***************************************************************************)
(* C21: elements share no mutable state: after z := NewT(a, b), z.Copy(y)  *)
(* or z.Conj(y) on a pointer-component type, an in-place change to one of  *)
(* the integers a, b or to a component integer of y leaves the value of z  *)
(* unchanged.                                                              *)
(***************************************************************************)
C21_NoSharedState ==
    [][op'[1] = "big.Int.Add"
          => Deref(heap', mem'[rcv]) = Deref(heap, mem[rcv])]_vars

(***************************************************************************)
(* C23: the pointer-component Complex.Quo called with y equal to zero      *)
(* panics and leaves the receiver z with the value it had before the call. *)
(***************************************************************************)
C23_PointerQuoContract ==
    [][(op' = <<"Quo", "x", "y">> /\ Deref(heap, mem["y"]) = ComplexZero)
          => /\ err' # ""
             /\ Deref(heap', mem'[rcv]) = Deref(heap, mem[rcv])]_vars

(***************************************************************************)
(* C22: Cockle.IsNilpotent(n) returns true exactly when z raised to the    *)
(* nth power, the empty product being 1, is the zero element, for every n  *)
(* >= 0, and the loop performs at most n multiplications.  As stated this  *)
(* fails for the zero element and n = 0; it holds when the zero element is *)
(* answered true for every n.                                              *)
(***************************************************************************)
\* The n-fold product of x, the empty product being 1.
RECURSIVE CocklePower(_, _)
CocklePower(x, n) ==
    IF n = 0 THEN NewCockle(1, 0, 0, 0) ELSE CockleMul(CocklePower(x, n - 1), x)

C22_IsNilpotentIffPowerZero ==
    (op[1] = "IsNilpotent")
        => /\ ret <=> (CocklePower(mem["x"], op[3]) = CockleZero)
           /\ op[4] <= op[3]

C22_IsNilpotentIffZeroOrPowerZero ==
    (op[1] = "IsNilpotent")
        => /\ ret <=> \/ mem["x"] = CockleZero
                      \/ CocklePower(mem["x"], op[3]) = CockleZero
           /\ op[4] <= op[3]

\* i + t is not zero and its square is: two multiplications answer true.
C22_Witness ==
    /\ op = <<"IsNilpotent", "x", 3, 2>>
    /\ mem["x"] = NewCockle(0, 1, 1, 0)
    /\ ret = TRUE

(***************************************************************************)
(* C24: division undoes multiplication exactly: for every type and every y *)
(* that Quo accepts, with a receiver distinct from the operands,           *)
(* Quo(Mul(x, y), y) equals x; for Cayley QuoR(Mul(x, y), y) equals x and  *)
(* QuoL(Mul(y, x), y) equals x.                                            *)
(***************************************************************************)
C24_QuoUndoesMul ==
    (op \in {<<"Quo", "w", "y">>, <<"QuoR", "w", "y">>, <<"QuoL", "w", "y">>}
        /\ err = "")
        => mem["z"] = mem["x"]

\* (j * (1 + i)) / (1 + i) = j in Hamilton, a division by 2.
C24_Witness ==
    /\ ty = "Hamilton"
    /\ op = <<"Quo", "w", "y">>
    /\ err = ""
    /\ mem["x"] = NewHamilton(0, 0, 1, 0)
    /\ mem["y"] = NewHamilton(1, 1, 0, 0)
    /\ mem["w"] = NewHamilton(0, 0, 1, -1)
    /\ mem["z"] = mem["x"]

(***************************************************************************)
(* C25: for every type and every x, Mul(x, Conj(x)) and Mul(Conj(x), x)    *)
(* both equal the element whose first component is Quad(x) and whose other *)
(* components are 0.                                                       *)
(***************************************************************************)
C25_MulConjIsQuad ==
    (op \in {<<"Mul", "x", "z">>, <<"Mul", "z", "x">>})
        => mem[rcv] = New(ty, [i \in 1..Dim(ty) |->
                                 IF i = 1 THEN Quad(ty, mem["x"]) ELSE 0])

\* (1 + 2t) * Conj(1 + 2t) = -3 in Cockle.
C25_Witness ==
    /\ ty = "Cockle"
    /\ op = <<"Mul", "z", "x">>
    /\ mem["x"] = NewCockle(1, 0, 2, 0)
    /\ mem["z"] = NewCockle(1, 0, -2, 0)
    /\ mem[rcv] = NewCockle(-3, 0, 0, 0)

(***************************************************************************)
(* C26: for Perplex, Cockle, Infra, InfraComplex, InfraPerplex and Supra,  *)
(* IsZeroDiv(x) is true if and only if x is the zero element or there is a *)
(* nonzero y of the same type with Mul(x, y) equal to the zero element.    *)
(* The factors y tried are those of weight at most MaxWeightFactor and the *)
(* conjugate of x.                                                         *)
(***************************************************************************)
Factors(t, x) ==
    {Conj(t, x)} \cup
    UNION {{New(t, v) : v \in VectorsOfWeight(Dim(t), k)} : k \in 1..MaxWeightFactor}

HasZeroProduct(t, x) ==
    \E y \in Factors(t, x) : y # Zero(t) /\ Mul(t, x, y) = Zero(t)

C26_IsZeroDivIffZeroProduct ==
    (op = <<"IsZeroDiv", "x">>)
        => (ret <=> (mem["x"] = Zero(ty) \/ HasZeroProduct(ty, mem["x"])))

\* 2 + 2s is a zero divisor of InfraPerplex: (2 + 2s) * (1 - s) = 0.
C26_Witness ==
    /\ ty = "InfraPerplex"
    /\ op = <<"IsZeroDiv", "x">>
    /\ mem["x"] = NewInfraPerplex(2, 2, 0, 0)
    /\ Mul(ty, mem["x"], NewInfraPerplex(1, -1, 0, 0)) = Zero(ty)
    /\ ret = TRUE

(***************************************************************************)
(* C27: Mul is alias-safe for every type: z.Mul(x, y) stores the product   *)
(* of the values x and y had before the call also when the receiver z is   *)
(* the same object as x, as y, or as both, so that a chained call such as  *)
(* l.Mul(l.Mul(x, y), z) computes (x * y) * z.                             *)
(***************************************************************************)
C27_MulAliasSafe ==
    [][(op'[1] = "Mul" /\ rcv' \in {op'[2], op'[3]})
          => mem'[rcv'] = Mul(ty, mem[op'[2]], mem[op'[3]])]_vars

\* x.Mul(x, y) on x = i and y = j in Hamilton leaves k in x.
C27_Witness ==
    /\ ty = "Hamilton"
    /\ op = <<"Mul", "x", "y">>
    /\ rcv = "x"
    /\ mem["y"] = NewHamilton(0, 0, 1, 0)
    /\ mem["x"] = NewHamilton(0, 0, 0, 1)

(***************************************************************************)
(* C28: Quo is alias-safe: for every type and every accepted denominator   *)
(* y, z.Quo(x, y) (and Cayley z.QuoL, z.QuoR) stores the same result when  *)
(* the receiver z is the same object as the numerator x, or as the         *)
(* denominator y, as it stores when z is a fresh element.                  *)
(***************************************************************************)
C28_QuoAliasSafe ==
    [][(op'[1] \in {"Quo", "QuoL", "QuoR"} /\ rcv' \in {"x", "y"})
          => LET fresh == QuoNamed(op'[1], ty, mem, "z", "x", "y")
             IN  fresh.err = "" => mem'[rcv'] = fresh.mem["z"]]_vars

(***************************************************************************)
(* C29: Commutator and Associator are alias-safe: z.Commutator(x, y)       *)
(* equals Mul(x, y) - Mul(y, x) and z.Associator(w, x, y) equals           *)
(* Mul(Mul(w, x), y) - Mul(w, Mul(x, y)) on the operand values before the  *)
(* call, also when the receiver z is the same object as one of the         *)
(* operands.                                                               *)
(***************************************************************************)
C29_CommutatorAssociatorAliasSafe ==
    [][/\ (op'[1] = "Commutator" /\ rcv' \in {op'[2], op'[3]})
          => LET x == mem[op'[2]]
                 y == mem[op'[3]]
             IN  mem'[rcv'] = Sub(ty, Mul(ty, x, y), Mul(ty, y, x))
       /\ (op'[1] = "Associator" /\ rcv' \in {op'[2], op'[3], op'[4]})
          => LET w == mem[op'[2]]
                 x == mem[op'[3]]
                 y == mem[op'[4]]
             IN  mem'[rcv'] = Sub(ty, Mul(ty, Mul(ty, w, x), y),
                                      Mul(ty, w, Mul(ty, x, y)))]_vars

(***************************************************************************)
(* C30: operations only write their receiver: after z.Add, z.Sub, z.Neg,   *)
(* z.Conj, z.Scal, z.Mul, z.Commutator, z.Associator or a successful z.Quo *)
(* with a receiver z distinct from every operand, each operand, and the    *)
(* scalar passed to Scal, has the value it had before the call; and Quad,  *)
(* IsZeroDiv and Equals change no element at all.                          *)
(***************************************************************************)
\* The objects named as the operands of a call.
Args(o) == {o[i] : i \in 2..Len(o)}

C30_OnlyReceiverWritten ==
    [][/\ (/\ op'[1] \in {"Add", "Sub", "Neg", "Conj", "Scal", "Mul",
                          "Commutator", "Associator", "Quo", "QuoL", "QuoR"}
           /\ err' = ""
           /\ rcv' \notin Args(op'))
          => /\ \A o \in Objects \ {rcv'} : mem'[o] = mem[o]
             /\ heap' = heap
       /\ (op'[1] \in {"Quad", "IsZeroDiv", "Equals"})
          => mem' = mem /\ heap' = heap]_vars

\* z.Quo(x, y) on x = t and y = i in Cockle: z is written, x and y are not.
C30_Witness ==
    /\ ty = "Cockle"
    /\ op = <<"Quo", "x", "y">>
    /\ err = ""
    /\ rcv = "z"
    /\ mem["x"] = NewCockle(0, 0, 1, 0)
    /\ mem["y"] = NewCockle(0, 1, 0, 0)
    /\ mem["z"] # CockleZero

================================================================================
